---- MODULE Spec2Model ----
(***************************************************************************)
(* Model of src/script.js: the extract / download request lifecycle and    *)
(* the preview renderer (displayContent) of the PDF extraction client.     *)
(*                                                                         *)
(* Each async click handler is an activation that runs synchronously up to *)
(* its next await; every await in script.js waits on the network (a fetch  *)
(* or the read of a response body), so an activation parked at an await    *)
(* is exactly one outstanding network request.                             *)
(***************************************************************************)
EXTENDS Integers, Sequences, FiniteSets, TLC

VARIABLES
  files,              \* pdfFile.files.length
  extractedData,      \* let extractedData (script.js:10)
  message,            \* messageDiv: text and colour class
  extractDisabled,    \* extractButton.disabled
  downloadDisabled,   \* downloadButton.disabled
  fileDisabled,       \* pdfFile.disabled
  spinnerHidden,      \* loadingSpinner has class "hidden"
  downloadHidden,     \* downloadButton has class "hidden"
  previewTitleHidden, \* previewTitle has class "hidden"
  contentPreview,     \* children of contentPreview, in document order
  pending,            \* activations of the two handlers parked at an await
  lastRendered,       \* history: argument of the latest displayContent call
  lastUpload,         \* history: how the upload of the latest extraction resolved
  lastGenerate,       \* history: how the latest generate-pdf request resolved
  event               \* history: the handler step taken last

vars == <<files, extractedData, message, extractDisabled, downloadDisabled,
          fileDisabled, spinnerHidden, downloadHidden, previewTitleHidden,
          contentPreview, pending, lastRendered, lastUpload, lastGenerate,
          event>>

-----------------------------------------------------------------------------
(* Bounds of the model *)

MaxFiles == 2       \* files the user can select at once
MaxItems == 3       \* length of the datasets handed to the renderer alone
MaxListed == 2      \* length of the lists an upload response carries

-----------------------------------------------------------------------------
(* Data: content items, datasets, table payloads *)

Filenames == {"", "a.pdf"}

TableXY == "{\"columns\":[\"X\",\"Y\"],\"data\":[[1,2],[3,4]]}"
TableRagged == "{\"columns\":[\"X\",\"Y\"],\"data\":[[1],[2,3,4]]}"
TableTruncated == "{\"columns\":[\"X\""

TextItem(f) == [source_filename |-> f, type |-> "text", title |-> "", content |-> "Hello"]
ImageItem(f) == [source_filename |-> f, type |-> "image", title |-> "Figure", content |-> "data:image/png;base64,AAAA"]
TableItem(f, c) == [source_filename |-> f, type |-> "table", title |-> "Table", content |-> c]
AudioItem(f) == [source_filename |-> f, type |-> "audio", title |-> "", content |-> "clip"]

Items ==
  UNION { {TextItem(f), ImageItem(f), AudioItem(f),
           TableItem(f, TableXY), TableItem(f, TableRagged),
           TableItem(f, TableTruncated)} : f \in Filenames }

SeqsUpTo(S, n) == UNION { [1..k -> S] : k \in 0..n }

Datasets == SeqsUpTo(Items, MaxItems)

\* The lists the extraction service answers with in the lifecycle model.
ListedItems ==
  {TextItem("a.pdf"), ImageItem(""), TableItem("a.pdf", TableXY),
   TableItem("a.pdf", TableTruncated)}

ListedDatasets == SeqsUpTo(ListedItems, MaxListed)

\* A JavaScript value held in extractedData: an array, or undefined.
Arr(s) == [defined |-> TRUE, items |-> s]
Undefined == [defined |-> FALSE, items |-> <<>>]

-----------------------------------------------------------------------------
(* The preview: clearContentPreview and displayContent *)

\* JSON.parse on the payload strings of the model: a well-formed payload
\* yields its columns and rows, every other string raises a SyntaxError.
JSONparse(c) ==
  CASE c = TableXY ->
         [ok |-> TRUE, columns |-> <<"X", "Y">>, data |-> <<<<1, 2>>, <<3, 4>>>>]
    [] c = TableRagged ->
         [ok |-> TRUE, columns |-> <<"X", "Y">>, data |-> <<<<1>>, <<2, 3, 4>>>>]
    [] OTHER -> [ok |-> FALSE, columns |-> <<>>, data |-> <<>>]

\* Assigning a number to textContent stores its decimal string.
DigitText == <<"0", "1", "2", "3", "4", "5", "6", "7", "8", "9">>
CellText(cell) == DigitText[cell + 1]

PlaceholderText == "Extracted content will appear here."
Placeholder(isHidden) ==
  [tag |-> "p", id |-> "initialMessage", hidden |-> isHidden, text |-> PlaceholderText]
GroupHeader(f) == [tag |-> "h3", text |-> <<"--- Content from: ", f, " ---">>]
Paragraph(c) == [tag |-> "p", id |-> "", hidden |-> FALSE, text |-> c]
ImageBlock(item) ==
  [tag |-> "div", kind |-> "image", title |-> item.title,
   src |-> item.content, alt |-> item.title]
\* Variant: each body row gets one cell per column instead of one per value.
TableBlockByColumns(item, t) ==
  [tag |-> "div", kind |-> "table", title |-> item.title,
   head |-> t.columns,
   body |-> [r \in 1..Len(t.data) |->
               [k \in 1..(IF Len(t.data[r]) < Len(t.columns)
                            THEN Len(t.data[r]) ELSE Len(t.columns)) |->
                  CellText(t.data[r][k])]]]

\* The table element: thead from columns, one tr per row of data, one td per
\* cell of the row.
TableBlock(item, t) ==
  [tag |-> "div", kind |-> "table", title |-> item.title,
   head |-> t.columns,
   body |-> [r \in 1..Len(t.data) |->
               [k \in 1..Len(t.data[r]) |-> CellText(t.data[r][k])]]]

\* clearContentPreview: the title is hidden and the only child is a fresh,
\* visible placeholder.
ClearedPreview == <<Placeholder(FALSE)>>

\* Variant: the placeholder is appended without emptying the container.
clearContentPreviewAppends(children) == Append(children, Placeholder(FALSE))

\* clearContentPreview() on a container with the given children:
\* innerHTML = "" and then appendChild(initialMsgP).
clearContentPreview(children) ==
  LET emptied == <<>>
  IN Append(emptied, Placeholder(FALSE))

InitialSource == ""

\* Variant: only an item that will be rendered can open a group.
NeedsHeaderIfRecognized(currentSource, item) ==
  /\ currentSource # item.source_filename
  /\ item.type \in {"text", "image", "table"}

\* currentSource !== item.source_filename
NeedsHeader(currentSource, item) == currentSource # item.source_filename

\* The elements one forEach iteration appends before it returns or throws.
ItemHeader(currentSource, item) ==
  IF NeedsHeader(currentSource, item)
    THEN <<GroupHeader(item.source_filename)>>
    ELSE <<>>

\* Variant: a payload that does not parse is skipped, the pass goes on.
ItemThrowsNever(item) == FALSE

\* JSON.parse(item.content) throws inside the forEach callback.
ItemThrows(item) == item.type = "table" /\ ~JSONparse(item.content).ok

ItemBlock(item) ==
  CASE item.type = "text" -> <<Paragraph(item.content)>>
    [] item.type = "image" -> <<ImageBlock(item)>>
    [] item.type = "table" /\ JSONparse(item.content).ok ->
         <<TableBlock(item, JSONparse(item.content))>>
    [] OTHER -> <<>>

\* data.forEach(...) from index i on: the children appended so far and
\* whether the callback threw (which ends the iteration at that item).
RECURSIVE RenderItems(_, _, _, _)
RenderItems(data, i, currentSource, children) ==
  IF i > Len(data)
    THEN [children |-> children, threw |-> FALSE]
    ELSE LET item == data[i]
             withHeader == children \o ItemHeader(currentSource, item)
         IN IF ItemThrows(item)
              THEN [children |-> withHeader, threw |-> TRUE]
              ELSE RenderItems(data, i + 1,
                               IF NeedsHeader(currentSource, item)
                                 THEN item.source_filename
                                 ELSE currentSource,
                               withHeader \o ItemBlock(item))

\* displayContent(data): clear, show the title, hide the placeholder, then
\* append the blocks.
displayContent(data) ==
  RenderItems(data, 1, InitialSource, <<Placeholder(TRUE)>>)

-----------------------------------------------------------------------------
(* Status line: setMessage *)

ColorClass(type) ==
  CASE type = "blue" -> "text-blue-700"
    [] type = "green" -> "text-green-600"
    [] type = "yellow" -> "text-yellow-700"
    [] type = "red" -> "text-red-600"
    [] OTHER -> ""

\* A text is the sequence of the pieces a template literal concatenates.
setMessage(text, type) == [text |-> text, color |-> ColorClass(type)]

Contains(text, piece) == \E k \in 1..Len(text) : text[k] = piece

NoFilesMessage == setMessage(<<"Please select one or more PDF files first.">>, "yellow")
ProcessingMessage(n) ==
  setMessage(<<"Processing ", DigitText[n + 1], " PDF file(s)...">>, "blue")
ExtractedMessage ==
  setMessage(<<"Content extracted successfully! You can now download the PDF.">>, "green")
NothingExtractedMessage ==
  setMessage(<<"No content could be extracted from the files.">>, "yellow")
ExtractErrorMessage(errorMessage) ==
  setMessage(<<"An error occurred: ">> \o errorMessage
               \o <<". Please check the server console for details.">>, "red")
NothingToDownloadMessage ==
  setMessage(<<"No content to download. Please extract first.">>, "yellow")
GeneratingMessage == setMessage(<<"Generating PDF for download...">>, "blue")
DownloadStartedMessage ==
  setMessage(<<"Download started for extracted_content.pdf.">>, "green")
DownloadErrorMessage(errorMessage) ==
  setMessage(<<"An error occurred during download: ">> \o errorMessage \o <<".">>, "red")

-----------------------------------------------------------------------------
(* The network: statuses, response bodies, the errors a request can raise *)

Statuses == {200, 404, 500}
StatusText(status) ==
  CASE status = 200 -> "200" [] status = 404 -> "404" [] status = 500 -> "500"

\* Variant: the status of the response is not looked at.
OkAlways(status) == TRUE

\* response.ok
Ok(status) == status >= 200 /\ status <= 299

ErrorTexts == {"disk full", ""}

\* A response body: absent or malformed (response.json() rejects), or a JSON
\* object with the fields listed in "fields".
AbsentBody == [parses |-> FALSE, fields |-> {}, error |-> "", extracted_data |-> <<>>]
EmptyObjectBody == [parses |-> TRUE, fields |-> {}, error |-> "", extracted_data |-> <<>>]
ErrorBody(e) == [parses |-> TRUE, fields |-> {"error"}, error |-> e, extracted_data |-> <<>>]
DataBody(ds) ==
  [parses |-> TRUE, fields |-> {"extracted_data"}, error |-> "", extracted_data |-> ds]

ErrorBodies == {AbsentBody, EmptyObjectBody} \cup {ErrorBody(e) : e \in ErrorTexts}
UploadBodies == ErrorBodies \cup {DataBody(ds) : ds \in ListedDatasets}

\* error.message of the exceptions the handlers can catch
FetchFailed == <<"Failed to fetch">>
JsonSyntaxError == <<"Unexpected end of JSON input">>
LengthOfUndefined == <<"Cannot read properties of undefined (reading 'length')">>
HttpError(status) == <<"HTTP error! status: ", StatusText(status)>>

\* Variant: the error field of the body is ignored.
StatusOnly(errorData, status) == HttpError(status)

\* errorData.error || `HTTP error! status: ${response.status}`
ErrorOrStatus(errorData, status) ==
  IF "error" \in errorData.fields /\ errorData.error # ""
    THEN <<errorData.error>>
    ELSE HttpError(status)

UploadRequest(n) == [url |-> "/upload-pdfs", files |-> n, extracted_data |-> Undefined]
\* body: JSON.stringify({ extracted_data: extractedData })
GenerateRequest(data) == [url |-> "/generate-pdf", files |-> 0, extracted_data |-> data]

NoResponse == [state |-> "none", status |-> 0, body |-> AbsentBody]
Rejected == [state |-> "rejected", status |-> 0, body |-> AbsentBody]
Responded(status) == [state |-> "responded", status |-> status, body |-> AbsentBody]
BodyRead(status, body) == [state |-> "read", status |-> status, body |-> body]

-----------------------------------------------------------------------------
(* Shared pieces of the two handlers *)

loadingVars == <<extractDisabled, downloadDisabled, fileDisabled, spinnerHidden>>
previewVars == <<previewTitleHidden, contentPreview, lastRendered>>

\* Variant: the extract button is left out of the toggle.
setLoadingKeepsExtract(isLoading) ==
  /\ extractDisabled' = extractDisabled
  /\ downloadDisabled' = isLoading
  /\ fileDisabled' = isLoading
  /\ spinnerHidden' = ~isLoading

\* setLoading(isLoading)
setLoading(isLoading) ==
  /\ extractDisabled' = isLoading
  /\ downloadDisabled' = isLoading
  /\ fileDisabled' = isLoading
  /\ spinnerHidden' = ~isLoading

\* Variants: the class is left on the button / is not put on it.
HiddenNotRemoved == TRUE
HiddenNotAdded == FALSE

\* classList.add("hidden") / classList.remove("hidden") on downloadButton
HiddenAdded == TRUE
HiddenRemoved == FALSE

\* Variant: the selection is never taken to be empty.
NoFilesSelectedNever(n) == n < 0

\* files.length === 0
NoFilesSelected(n) == n = 0

\* Variant: the empty list takes the branch of the non-empty one.
HasContentOrEmpty(data) == Len(data) >= 0

\* extractedData.length > 0
HasContent(data) == Len(data) > 0

\* Variant: the preview is rendered from the value held before the store.
RenderArgumentStale(previous, stored) == previous

\* displayContent(extractedData) is called on the value stored one line above
RenderArgument(previous, stored) == stored

\* Variants: a handler that ends without its finally block.
ExtractFinallySkipped == UNCHANGED loadingVars
DownloadFinallySkipped == UNCHANGED loadingVars

\* finally { setLoading(false) } of each handler
ExtractFinally == setLoading(FALSE)
DownloadFinally == setLoading(FALSE)

Remove(q, i) == [k \in 1..(Len(q) - 1) |-> IF k < i THEN q[k] ELSE q[k + 1]]

Activation(handler, at, request) ==
  [handler |-> handler, at |-> at, request |-> request, status |-> 0]

AtStage(handler, at) ==
  {i \in 1..Len(pending) : pending[i].handler = handler /\ pending[i].at = at}

\* catch + finally of the extract handler: the activation ends with an error
ExtractCatch(i, errorMessage) ==
  /\ message' = ExtractErrorMessage(errorMessage)
  /\ ExtractFinally
  /\ pending' = Remove(pending, i)

\* catch + finally of the download handler
DownloadCatch(i, errorMessage) ==
  /\ message' = DownloadErrorMessage(errorMessage)
  /\ DownloadFinally
  /\ pending' = Remove(pending, i)

-----------------------------------------------------------------------------
(* Initial state: the page as loaded, before any click *)

NoMessage == [text |-> <<>>, color |-> ""]

\* The page markup is not part of script.js: following the lifecycle of the
\* specification (no download before the Extracted phase) the download
\* button starts with the class "hidden".
InitialDownloadHidden == TRUE

Init ==
  /\ files = 0
  /\ extractedData = Arr(<<>>)
  /\ message = NoMessage
  /\ extractDisabled = FALSE
  /\ downloadDisabled = FALSE
  /\ fileDisabled = FALSE
  /\ spinnerHidden = TRUE
  /\ downloadHidden = InitialDownloadHidden
  /\ previewTitleHidden = TRUE
  /\ contentPreview = ClearedPreview
  /\ pending = <<>>
  /\ lastRendered = Undefined
  /\ lastUpload = NoResponse
  /\ lastGenerate = NoResponse
  /\ event = "load"

-----------------------------------------------------------------------------
(* User input *)

\* The user changes the selection of the file input.
SelectFiles(n) ==
  /\ ~fileDisabled
  /\ n # files
  /\ files' = n
  /\ event' = "SelectFiles"
  /\ UNCHANGED <<extractedData, message, loadingVars, downloadHidden,
                 previewVars, pending, lastUpload, lastGenerate>>

\* Click on extractButton: the handler runs up to the await of the upload.
ExtractClick ==
  /\ ~extractDisabled
  /\ IF NoFilesSelected(files)
       THEN /\ message' = NoFilesMessage
            /\ event' = "ExtractClickNoFiles"
            /\ UNCHANGED <<loadingVars, downloadHidden, previewTitleHidden,
                           contentPreview, pending, lastUpload, lastGenerate>>
       ELSE /\ message' = ProcessingMessage(files)
            /\ setLoading(TRUE)
            /\ downloadHidden' = HiddenAdded
            /\ previewTitleHidden' = TRUE
            /\ contentPreview' = clearContentPreview(contentPreview)
            /\ pending' = Append(pending,
                            Activation("extract", "upload", UploadRequest(files)))
            /\ lastUpload' = NoResponse
            /\ lastGenerate' = NoResponse
            /\ event' = "ExtractClick"
  /\ UNCHANGED <<files, extractedData, lastRendered>>

\* Click on downloadButton: the handler runs up to the await of the request.
\* The user can click the button only while it is enabled and displayed
\* (the class "hidden" takes it out of the page).
DownloadClick ==
  /\ ~downloadDisabled
  /\ ~downloadHidden
  /\ IF ~extractedData.defined
       THEN \* extractedData.length throws before the try block
            /\ event' = "DownloadClickThrows"
            /\ UNCHANGED <<message, loadingVars, pending, lastGenerate>>
       ELSE IF Len(extractedData.items) = 0
         THEN /\ message' = NothingToDownloadMessage
              /\ event' = "DownloadClickNoData"
              /\ UNCHANGED <<loadingVars, pending, lastGenerate>>
         ELSE /\ message' = GeneratingMessage
              /\ setLoading(TRUE)
              /\ pending' = Append(pending,
                              Activation("download", "download",
                                         GenerateRequest(extractedData)))
              /\ lastGenerate' = NoResponse
              /\ event' = "DownloadClick"
  /\ UNCHANGED <<files, extractedData, downloadHidden, previewVars, lastUpload>>

-----------------------------------------------------------------------------
(* The extract handler after each await *)

\* await fetch(".../upload-pdfs") settles: a transport rejection, or a
\* response with some status (then the body is read with response.json()).
UploadSettle(i, rejected, status) ==
  /\ i \in AtStage("extract", "upload")
  /\ IF rejected
       THEN /\ ExtractCatch(i, FetchFailed)
            /\ lastUpload' = Rejected
       ELSE /\ pending' = [pending EXCEPT
                             ![i].at = IF Ok(status) THEN "uploadJson"
                                                     ELSE "uploadErrorJson",
                             ![i].status = status]
            /\ lastUpload' = Responded(status)
            /\ UNCHANGED <<message, loadingVars>>
  /\ event' = "UploadSettle"
  /\ UNCHANGED <<files, extractedData, downloadHidden, previewVars, lastGenerate>>

\* await response.json() of a non-2xx upload response settles; the handler
\* throws the error and ends in catch/finally.
UploadErrorJsonSettle(i, body) ==
  /\ i \in AtStage("extract", "uploadErrorJson")
  /\ ExtractCatch(i, IF body.parses
                       THEN ErrorOrStatus(body, pending[i].status)
                       ELSE JsonSyntaxError)
  /\ lastUpload' = BodyRead(pending[i].status, body)
  /\ event' = "UploadErrorJsonSettle"
  /\ UNCHANGED <<files, extractedData, downloadHidden, previewVars, lastGenerate>>

\* await response.json() of a 2xx upload response settles; the handler
\* stores the list, renders it and issues the proactive generate-pdf
\* request, or ends.
UploadJsonSettle(i, body) ==
  /\ i \in AtStage("extract", "uploadJson")
  /\ lastUpload' = BodyRead(pending[i].status, body)
  /\ event' = "UploadJsonSettle"
  /\ IF ~body.parses
       THEN /\ ExtractCatch(i, JsonSyntaxError)
            /\ UNCHANGED <<extractedData, downloadHidden, previewVars>>
       ELSE IF "extracted_data" \notin body.fields
         THEN /\ extractedData' = Undefined
              /\ ExtractCatch(i, LengthOfUndefined)
              /\ UNCHANGED <<downloadHidden, previewVars>>
         ELSE
           /\ extractedData' = Arr(body.extracted_data)
           /\ IF HasContent(body.extracted_data)
                THEN LET arg == RenderArgument(extractedData, extractedData')
                         r == displayContent(arg.items)
                     IN /\ previewTitleHidden' = FALSE
                        /\ contentPreview' = r.children
                        /\ lastRendered' = arg
                        /\ UNCHANGED downloadHidden
                        /\ IF r.threw
                             THEN ExtractCatch(i, JsonSyntaxError)
                             ELSE /\ message' = ExtractedMessage
                                  /\ pending' = [pending EXCEPT
                                       ![i].at = "generate",
                                       ![i].request =
                                          GenerateRequest(extractedData')]
                                  /\ UNCHANGED loadingVars
                ELSE /\ message' = NothingExtractedMessage
                     /\ downloadHidden' = HiddenAdded
                     /\ ExtractFinally
                     /\ pending' = Remove(pending, i)
                     /\ UNCHANGED previewVars
  /\ UNCHANGED <<files, lastGenerate>>

\* Variant: a non-2xx answer to the proactive request is thrown as an error.
GenerateAcceptedIfOk(status) == Ok(status)

\* generateResponse is never inspected: every status is taken as success.
GenerateAccepted(status) == TRUE

\* await fetch(".../generate-pdf") of the extract handler settles: any
\* response shows the download button, a rejection goes to catch.
GenerateSettle(i, rejected, status) ==
  /\ i \in AtStage("extract", "generate")
  /\ IF rejected \/ ~GenerateAccepted(status)
       THEN /\ ExtractCatch(i, IF rejected THEN FetchFailed ELSE HttpError(status))
            /\ lastGenerate' = IF rejected THEN Rejected ELSE Responded(status)
            /\ UNCHANGED downloadHidden
       ELSE /\ downloadHidden' = HiddenRemoved
            /\ ExtractFinally
            /\ pending' = Remove(pending, i)
            /\ lastGenerate' = Responded(status)
            /\ UNCHANGED message
  /\ event' = "GenerateSettle"
  /\ UNCHANGED <<files, extractedData, previewVars, lastUpload>>

-----------------------------------------------------------------------------
(* The download handler after each await *)

\* await fetch(".../generate-pdf") of the download handler settles.
DownloadSettle(i, rejected, status) ==
  /\ i \in AtStage("download", "download")
  /\ IF rejected
       THEN /\ DownloadCatch(i, FetchFailed)
            /\ lastGenerate' = Rejected
       ELSE /\ pending' = [pending EXCEPT
                             ![i].at = IF Ok(status) THEN "downloadBlob"
                                                     ELSE "downloadErrorJson",
                             ![i].status = status]
            /\ lastGenerate' = Responded(status)
            /\ UNCHANGED <<message, loadingVars>>
  /\ event' = "DownloadSettle"
  /\ UNCHANGED <<files, extractedData, downloadHidden, previewVars, lastUpload>>

\* await response.json() of a non-2xx generate-pdf response settles.
DownloadErrorJsonSettle(i, body) ==
  /\ i \in AtStage("download", "downloadErrorJson")
  /\ DownloadCatch(i, IF body.parses
                        THEN ErrorOrStatus(body, pending[i].status)
                        ELSE JsonSyntaxError)
  /\ lastGenerate' = BodyRead(pending[i].status, body)
  /\ event' = "DownloadErrorJsonSettle"
  /\ UNCHANGED <<files, extractedData, downloadHidden, previewVars, lastUpload>>

\* await response.blob() settles: the file is handed to the browser, or the
\* read of the body failed.
DownloadBlobSettle(i, rejected) ==
  /\ i \in AtStage("download", "downloadBlob")
  /\ IF rejected
       THEN DownloadCatch(i, FetchFailed)
       ELSE /\ message' = DownloadStartedMessage
            /\ DownloadFinally
            /\ pending' = Remove(pending, i)
  /\ lastGenerate' = [lastGenerate EXCEPT !.state = IF rejected THEN "rejected" ELSE "read"]
  /\ event' = "DownloadBlobSettle"
  /\ UNCHANGED <<files, extractedData, downloadHidden, previewVars, lastUpload>>

-----------------------------------------------------------------------------
(* Specification *)

Next ==
  \/ \E n \in 0..MaxFiles : SelectFiles(n)
  \/ ExtractClick
  \/ DownloadClick
  \/ \E i \in DOMAIN pending, rejected \in BOOLEAN, status \in Statuses :
        UploadSettle(i, rejected, status)
  \/ \E i \in DOMAIN pending, body \in ErrorBodies : UploadErrorJsonSettle(i, body)
  \/ \E i \in DOMAIN pending, body \in UploadBodies : UploadJsonSettle(i, body)
  \/ \E i \in DOMAIN pending, rejected \in BOOLEAN, status \in Statuses :
        GenerateSettle(i, rejected, status)
  \/ \E i \in DOMAIN pending, rejected \in BOOLEAN, status \in Statuses :
        DownloadSettle(i, rejected, status)
  \/ \E i \in DOMAIN pending, body \in ErrorBodies : DownloadErrorJsonSettle(i, body)
  \/ \E i \in DOMAIN pending, rejected \in BOOLEAN : DownloadBlobSettle(i, rejected)

Spec == Init /\ [][Next]_vars

\* Every issued request eventually settles (the scheduling the liveness
\* claims assume): each await is eventually resumed.
FairSpec ==
  /\ Spec
  /\ WF_vars(\E i \in DOMAIN pending, rejected \in BOOLEAN, status \in Statuses :
               UploadSettle(i, rejected, status))
  /\ WF_vars(\E i \in DOMAIN pending, body \in ErrorBodies :
               UploadErrorJsonSettle(i, body))
  /\ WF_vars(\E i \in DOMAIN pending, body \in UploadBodies :
               UploadJsonSettle(i, body))
  /\ WF_vars(\E i \in DOMAIN pending, rejected \in BOOLEAN, status \in Statuses :
               GenerateSettle(i, rejected, status))
  /\ WF_vars(\E i \in DOMAIN pending, rejected \in BOOLEAN, status \in Statuses :
               DownloadSettle(i, rejected, status))
  /\ WF_vars(\E i \in DOMAIN pending, body \in ErrorBodies :
               DownloadErrorJsonSettle(i, body))
  /\ WF_vars(\E i \in DOMAIN pending, rejected \in BOOLEAN :
               DownloadBlobSettle(i, rejected))

-----------------------------------------------------------------------------
(* The renderer on its own: displayContent and clearContentPreview applied *)
(* to every dataset up to MaxItems items.                                  *)

RenderInit ==
  /\ files = 0
  /\ extractedData \in {Arr(ds) : ds \in Datasets}
  /\ message = NoMessage
  /\ extractDisabled = FALSE
  /\ downloadDisabled = FALSE
  /\ fileDisabled = FALSE
  /\ spinnerHidden = TRUE
  /\ downloadHidden = InitialDownloadHidden
  /\ previewTitleHidden = TRUE
  /\ contentPreview = ClearedPreview
  /\ pending = <<>>
  /\ lastRendered = Undefined
  /\ lastUpload = NoResponse
  /\ lastGenerate = NoResponse
  /\ event = "load"

\* displayContent(extractedData)
Render ==
  LET r == displayContent(extractedData.items)
  IN /\ previewTitleHidden' = FALSE
     /\ contentPreview' = r.children
     /\ lastRendered' = extractedData
     /\ event' = IF r.threw THEN "displayContentThrew" ELSE "displayContent"
     /\ UNCHANGED <<files, extractedData, message, loadingVars, downloadHidden,
                    pending, lastUpload, lastGenerate>>

\* clearContentPreview()
Clear ==
  /\ previewTitleHidden' = TRUE
  /\ contentPreview' = clearContentPreview(contentPreview)
  /\ event' = "clearContentPreview"
  /\ UNCHANGED <<files, extractedData, message, loadingVars, downloadHidden,
                 pending, lastRendered, lastUpload, lastGenerate>>

RenderNext == Render \/ Clear

RenderSpec == RenderInit /\ [][RenderNext]_vars

-----------------------------------------------------------------------------
(* Shorthands for the properties *)

Loading == extractDisabled /\ downloadDisabled /\ fileDisabled
ControlsEnabled ==
  ~extractDisabled /\ ~downloadDisabled /\ ~fileDisabled /\ spinnerHidden

InFlight(url) == {i \in DOMAIN pending : pending[i].request.url = url}

-----------------------------------------------------------------------------
(* Properties of the request lifecycle *)

\* C1: at most one network request (upload, proactive generate-pdf or
\* user-initiated generate-pdf) is in flight, and while one is in flight
\* the extract button, the download button and the file input are disabled.
C1_OneRequestInFlight ==
  /\ Len(pending) <= 1
  /\ Len(pending) >= 1 => Loading

\* C1 case: a user-initiated generate-pdf request is in flight.
C1_Witness ==
  \E i \in DOMAIN pending :
    pending[i].handler = "download" /\ pending[i].at = "download"

\* C2: the dataset in the body of every generate-pdf request is the dataset
\* most recently passed to displayContent.
C2_BodyIsRenderedDataset ==
  \A i \in InFlight("/generate-pdf") :
    pending[i].request.extracted_data = lastRendered

\* C2 case: a download click has sent the dataset of a completed extraction.
C2_Witness ==
  \E i \in InFlight("/generate-pdf") :
    /\ pending[i].handler = "download"
    /\ Len(pending[i].request.extracted_data.items) > 0

\* C3: once an operation has a request outstanding, and every request
\* settles, the loading state is eventually cleared and the three controls
\* are enabled again.
C3_LoadingEventuallyCleared ==
  (Len(pending) > 0) ~> (Len(pending) = 0 /\ ControlsEnabled)

\* C3 case: an extraction ended by an exception thrown while rendering, with
\* the controls enabled again.
C3_Witness ==
  /\ event = "UploadJsonSettle"
  /\ lastRendered.defined
  /\ displayContent(lastRendered.items).threw
  /\ Len(pending) = 0
  /\ ControlsEnabled

\* The upload of the latest extraction resolved 2xx with a body that carries
\* an extracted item list.
UploadGaveList ==
  /\ lastUpload.state = "read"
  /\ Ok(lastUpload.status)
  /\ lastUpload.body.parses
  /\ "extracted_data" \in lastUpload.body.fields

UploadedList == lastUpload.body.extracted_data

\* The latest step ended an extraction / a download operation.
ExtractionEnded ==
  /\ event \in {"UploadSettle", "UploadErrorJsonSettle", "UploadJsonSettle",
                "GenerateSettle"}
  /\ Len(pending) = 0

DownloadEvents == {"DownloadSettle", "DownloadErrorJsonSettle", "DownloadBlobSettle"}

\* The preview shows the complete render of the list.
RenderedCompletely(list) ==
  /\ ~displayContent(list).threw
  /\ ~previewTitleHidden
  /\ contentPreview = displayContent(list).children

\* The Extracted phase, for the list.
Extracted(list) ==
  /\ extractedData = Arr(list)
  /\ RenderedCompletely(list)
  /\ ~downloadHidden
  /\ ControlsEnabled

\* C4 as stated: every extraction whose upload resolved 2xx with a non-empty
\* list ends in the Extracted phase (list stored, rendered, download
\* visible and enabled).
C4_Original ==
  (ExtractionEnded /\ UploadGaveList /\ Len(UploadedList) > 0)
    => Extracted(UploadedList)

\* C4 (amended): after an upload that resolved 2xx with a non-empty list the
\* list is stored and was passed to the renderer; if the render completed
\* and the proactive generate-pdf request resolved with a response, the
\* extraction ends in the Extracted phase.
C4_ExtractedAfterNonEmptyList ==
  (ExtractionEnded /\ UploadGaveList /\ Len(UploadedList) > 0)
    => /\ extractedData = Arr(UploadedList)
       /\ lastRendered = Arr(UploadedList)
       /\ (~displayContent(UploadedList).threw /\ lastGenerate.state = "responded")
            => Extracted(UploadedList)

\* C4 case: an extraction of a non-empty list has ended after the proactive
\* request was answered.
C4_Witness ==
  /\ ExtractionEnded
  /\ UploadGaveList
  /\ Len(UploadedList) > 0
  /\ lastGenerate.state = "responded"
  /\ ~downloadHidden

\* C5: an extract click with an empty file selection issues no request,
\* does not enter the loading state and changes nothing but the status
\* message, which becomes the 'no files selected' warning.
C5_EmptySelectionOnlyWarns ==
  [][(event' \in {"ExtractClick", "ExtractClickNoFiles"} /\ files = 0)
       => /\ message' = NoFilesMessage
          /\ ControlsEnabled'
          /\ UNCHANGED <<files, extractedData, loadingVars, downloadHidden,
                         previewTitleHidden, contentPreview, pending>>]_vars

\* C5 case: the click came with no file selected while an earlier
\* extraction's preview and download button were on the page.
C5_Witness ==
  /\ event = "ExtractClickNoFiles"
  /\ files = 0
  /\ ~downloadHidden
  /\ Len(contentPreview) > 1

\* C6: after an upload that resolved non-2xx with a JSON body whose error
\* field e is non-empty, the status message contains e and the download
\* button is hidden.
C6_ServiceErrorShown ==
  (/\ event = "UploadErrorJsonSettle"
   /\ lastUpload.body.parses
   /\ "error" \in lastUpload.body.fields
   /\ lastUpload.body.error # "")
    => /\ Contains(message.text, lastUpload.body.error)
       /\ downloadHidden
       /\ Len(pending) = 0

\* C6 case: the failed upload followed an extraction that had stored and
\* rendered a dataset.
C6_Witness ==
  /\ event = "UploadErrorJsonSettle"
  /\ lastUpload.body.error = "disk full"
  /\ lastUpload.status = 500
  /\ extractedData.defined
  /\ Len(extractedData.items) > 0
  /\ extractedData = lastRendered

\* C7 as stated: for both endpoints, a non-2xx response without a body gives
\* the status-code message of that response.
C7_Original ==
  /\ (event = "UploadErrorJsonSettle" /\ ~lastUpload.body.parses)
       => message = ExtractErrorMessage(HttpError(lastUpload.status))
  /\ (event = "DownloadErrorJsonSettle" /\ ~lastGenerate.body.parses)
       => message = DownloadErrorMessage(HttpError(lastGenerate.status))

\* C8: an upload that resolved 2xx with an empty list ends the operation
\* idle: no generate-pdf request, the 'nothing extracted' warning, only the
\* placeholder in the preview, the download button hidden.
C8_EmptyListEndsIdle ==
  (event = "UploadJsonSettle" /\ UploadGaveList /\ Len(UploadedList) = 0)
    => /\ Len(pending) = 0
       /\ lastGenerate = NoResponse
       /\ message = NothingExtractedMessage
       /\ contentPreview = ClearedPreview
       /\ previewTitleHidden
       /\ downloadHidden
       /\ ControlsEnabled

\* C8 case: the empty list came after an extraction that had rendered a
\* non-empty dataset.
C8_Witness ==
  /\ event = "UploadJsonSettle"
  /\ UploadGaveList
  /\ Len(UploadedList) = 0
  /\ lastRendered.defined
  /\ Len(lastRendered.items) > 0

\* C9: no step of a download operation changes the retained dataset, the
\* preview or the visibility of the download button, and when the
\* operation ends (failed or not) the page is in the Extracted phase of
\* that dataset: a further download click sends it again.
C9_DownloadKeepsDataset ==
  [][(event' \in DownloadEvents)
       => /\ UNCHANGED <<extractedData, previewTitleHidden, contentPreview,
                         downloadHidden>>
          /\ Len(pending') = 0 =>
               /\ extractedData'.defined
               /\ Len(extractedData'.items) > 0
               /\ Extracted(extractedData.items)'
               /\ GenerateRequest(extractedData') = pending[1].request]_vars

\* C9 case: a download has just failed with a non-2xx response.
C9_Witness ==
  /\ event = "DownloadErrorJsonSettle"
  /\ Len(pending) = 0
  /\ ~downloadHidden
  /\ ~downloadDisabled

-----------------------------------------------------------------------------
(* Properties of the renderer *)

IsHeader(b) == b.tag = "h3"
IsPlaceholder(b) == b.tag = "p" /\ b.id = "initialMessage"
IsItemBlock(b) == ~IsHeader(b) /\ ~IsPlaceholder(b)

HeaderCount(children) == Len(SelectSeq(children, IsHeader))

\* The type each item block was rendered from, in document order.
BlockType(b) == IF b.tag = "p" THEN "text" ELSE b.kind
ItemBlockTypes(children) ==
  LET blocks == SelectSeq(children, IsItemBlock)
  IN [k \in 1..Len(blocks) |-> BlockType(blocks[k])]

IsRecognized(item) == item.type \in {"text", "image", "table"}
RecognizedTypes(data) ==
  LET items == SelectSeq(data, IsRecognized)
  IN [k \in 1..Len(items) |-> items[k].type]

\* Number of maximal runs of equal source_filename.
Runs(data) ==
  Cardinality({k \in 1..Len(data) :
                 k = 1 \/ data[k].source_filename # data[k - 1].source_filename})

\* C10 as stated, for the renders that run to completion: one item block per
\* item of recognized type, in dataset order; as many group headers as
\* maximal runs of equal source_filename; the first item always under a
\* header, whatever its source_filename.
C10_Original ==
  (event = "displayContent")
    => LET data == lastRendered.items
       IN /\ ItemBlockTypes(contentPreview) = RecognizedTypes(data)
          /\ HeaderCount(contentPreview) = Runs(data)
          /\ Len(data) > 0 => IsHeader(contentPreview[2])

-----------------------------------------------------------------------------
(* Further properties of the request lifecycle *)

IsMalformedTable(item) == item.type = "table" /\ ~JSONparse(item.content).ok
HasMalformedTable(list) == \E k \in 1..Len(list) : IsMalformedTable(list[k])

\* The items in front of the first table whose content does not deserialize.
BeforeMalformed(list) ==
  LET first == CHOOSE k \in 1..Len(list) :
                 /\ IsMalformedTable(list[k])
                 /\ \A j \in 1..(k - 1) : ~IsMalformedTable(list[j])
  IN SubSeq(list, 1, first - 1)

\* C11: when a table of the uploaded list fails to deserialize, the
\* extraction ends in its catch block: only the items in front of that
\* table have blocks in the preview, the status line is the one error
\* message, the controls are enabled again, no generate-pdf request was
\* issued and the download button is hidden.
C11_MalformedTableAbortsRender ==
  (event = "UploadJsonSettle" /\ UploadGaveList /\ HasMalformedTable(UploadedList))
    => /\ Len(pending) = 0
       /\ ItemBlockTypes(contentPreview)
            = RecognizedTypes(BeforeMalformed(UploadedList))
       /\ message = ExtractErrorMessage(JsonSyntaxError)
       /\ ControlsEnabled
       /\ lastGenerate = NoResponse
       /\ downloadHidden

\* C11 case: the malformed table is followed by an item that would render.
C11_Witness ==
  /\ event = "UploadJsonSettle"
  /\ UploadGaveList
  /\ Len(UploadedList) = 2
  /\ IsMalformedTable(UploadedList[1])
  /\ UploadedList[2].type = "text"

-----------------------------------------------------------------------------
(* Further properties of the renderer *)

RenderEvents == {"displayContent", "displayContentThrew"}

\* The items a render pass got through: all of them, or those in front of
\* the table that made it throw.
RenderedItems(data) ==
  IF HasMalformedTable(data) THEN BeforeMalformed(data) ELSE data

\* C12: the table rendered for a table item with columns C and rows R has
\* the header cells C in order and one body row per row of R in order, row
\* i holding exactly the cells of R[i] in positional order.
C12_TableFollowsPayload ==
  (event \in RenderEvents)
    => LET items == SelectSeq(RenderedItems(lastRendered.items), IsRecognized)
           blocks == SelectSeq(contentPreview, IsItemBlock)
       IN /\ Len(blocks) = Len(items)
          /\ \A k \in 1..Len(items) :
               items[k].type = "table" =>
                 LET t == JSONparse(items[k].content)
                     b == blocks[k]
                 IN /\ b.tag = "div" /\ b.kind = "table"
                    /\ b.head = t.columns
                    /\ Len(b.body) = Len(t.data)
                    /\ \A r \in 1..Len(t.data) :
                         /\ Len(b.body[r]) = Len(t.data[r])
                         /\ \A c \in 1..Len(t.data[r]) :
                              b.body[r][c] = CellText(t.data[r][c])

\* C12 case: a table whose rows are shorter and longer than its columns has
\* been rendered.
C12_Witness ==
  /\ event = "displayContent"
  /\ \E k \in 1..Len(lastRendered.items) :
       /\ lastRendered.items[k].type = "table"
       /\ lastRendered.items[k].content = TableRagged
  /\ \E k \in 1..Len(contentPreview) :
       /\ contentPreview[k].tag = "div"
       /\ contentPreview[k].kind = "table"
       /\ contentPreview[k].body = <<<<"1">>, <<"2", "3", "4">>>>

-----------------------------------------------------------------------------
(* Properties of the generate-pdf requests *)

IsEmptyDataset(data) == ~data.defined \/ Len(data.items) = 0

-----------------------------------------------------------------------------
(* Properties of clearContentPreview *)

\* C14: after clearContentPreview the preview is exactly one visible
\* placeholder under a hidden title, whatever it showed before, and clearing
\* it once more gives the same preview.
C14_ClearIsIdempotent ==
  (event = "clearContentPreview")
    => /\ contentPreview = ClearedPreview
       /\ previewTitleHidden
       /\ clearContentPreview(contentPreview) = contentPreview

\* C14 case: the preview was cleared after a render pass that had stopped
\* at a malformed table.
C14_Witness ==
  /\ event = "clearContentPreview"
  /\ lastRendered.defined
  /\ HasMalformedTable(lastRendered.items)
  /\ Len(displayContent(lastRendered.items).children) > 1

\* The upload of the latest extraction resolved 2xx with a non-empty list in
\* which every table deserializes.
UploadRenderable ==
  /\ UploadGaveList
  /\ Len(UploadedList) > 0
  /\ ~HasMalformedTable(UploadedList)

\* C15: the proactive generate-pdf request of an extraction is in flight
\* only after the upload resolved 2xx with a non-empty list that was stored
\* and rendered completely, it carries that list, it is the only
\* generate-pdf request of the extraction and the controls are still
\* disabled; an extraction has issued it by the time it ends exactly when
\* its upload gave such a list.
C15_OneProactiveRequest ==
  /\ \A i \in DOMAIN pending :
       pending[i].at = "generate" =>
         /\ UploadRenderable
         /\ extractedData = Arr(UploadedList)
         /\ pending[i].request = GenerateRequest(Arr(UploadedList))
         /\ RenderedCompletely(UploadedList)
         /\ lastRendered = Arr(UploadedList)
         /\ InFlight("/generate-pdf") = {i}
         /\ lastGenerate = NoResponse
         /\ Loading
  /\ ExtractionEnded => (lastGenerate # NoResponse <=> UploadRenderable)

\* C15 case: the proactive request is in flight behind a completed render.
C15_Witness ==
  /\ event = "UploadJsonSettle"
  /\ UploadRenderable
  /\ \E i \in DOMAIN pending : pending[i].at = "generate"
  /\ ~previewTitleHidden
  /\ extractDisabled

-----------------------------------------------------------------------------
(* Properties of the preview during an extraction *)

UploadStages == {"upload", "uploadErrorJson", "uploadJson"}

OnlyPlaceholderShown == contentPreview = ClearedPreview /\ previewTitleHidden

\* C16: while the upload of an extraction is in flight the preview shows
\* only the placeholder and the download button is hidden, and when the
\* upload has failed (rejected, non-2xx, or no item list in the body) the
\* preview still shows only the placeholder.
C16_PreviewClearedDuringUpload ==
  /\ (\E i \in DOMAIN pending : pending[i].at \in UploadStages)
       => OnlyPlaceholderShown /\ downloadHidden
  /\ (ExtractionEnded /\ ~UploadGaveList) => OnlyPlaceholderShown

\* C16 case: an upload is in flight while the dataset of an earlier,
\* completely rendered extraction is still retained.
C16_Witness ==
  /\ \E i \in DOMAIN pending : pending[i].at = "upload"
  /\ extractedData.defined
  /\ Len(extractedData.items) > 0
  /\ lastRendered = extractedData
  /\ ~HasMalformedTable(extractedData.items)

\* C17: when the proactive generate-pdf request is answered, with whatever
\* status, the extraction ends with the success message and the download
\* button shown; when it is rejected, the extraction ends with the error
\* message and the button hidden, while the preview keeps the complete
\* render and the new dataset stays retained.
C17_ProactiveOutcomeAsymmetry ==
  (event = "GenerateSettle")
    => /\ Len(pending) = 0
       /\ ControlsEnabled
       /\ extractedData = Arr(UploadedList)
       /\ RenderedCompletely(UploadedList)
       /\ lastGenerate.state = "responded"
            => message = ExtractedMessage /\ ~downloadHidden
       /\ lastGenerate.state = "rejected"
            => message = ExtractErrorMessage(FetchFailed) /\ downloadHidden
       /\ lastGenerate.state \in {"responded", "rejected"}

\* C17 case: the proactive request was answered with a non-2xx status.
C17_Witness ==
  /\ event = "GenerateSettle"
  /\ lastGenerate.state = "responded"
  /\ lastGenerate.status = 500
  /\ ~downloadHidden

-----------------------------------------------------------------------------
(* Properties of the retained dataset *)

\* C18: whenever no operation is in progress and the download button is
\* shown, the retained dataset is non-empty, it is the list of the latest
\* upload, which resolved 2xx, and the preview shows its complete render;
\* and every dataset a download click has sent is that list.
C18_VisibleButtonMeansExtracted ==
  /\ (Len(pending) = 0 /\ ~downloadHidden)
       => /\ ~IsEmptyDataset(extractedData)
          /\ UploadGaveList
          /\ extractedData = Arr(UploadedList)
          /\ RenderedCompletely(extractedData.items)
  /\ \A i \in DOMAIN pending :
       pending[i].handler = "download"
         => /\ UploadGaveList
            /\ pending[i].request.extracted_data = Arr(UploadedList)
            /\ RenderedCompletely(UploadedList)

\* C18 case: the page is idle with the download button shown after a
\* download has been served.
C18_Witness ==
  /\ event = "DownloadBlobSettle"
  /\ Len(pending) = 0
  /\ ~downloadHidden
  /\ message = DownloadStartedMessage

\* C19: a step changes the retained dataset only when it reads the body of
\* an upload response with a 2xx status; no step of a failed upload and no
\* step of a download operation writes it.
C19_DatasetWrittenOnlyOn2xx ==
  [][/\ (extractedData' # extractedData)
          => /\ event' = "UploadJsonSettle"
             /\ lastUpload'.state = "read"
             /\ lastUpload'.status \in 200..299
             /\ lastUpload'.body.parses
     /\ (event' \in DownloadEvents \cup {"DownloadClick", "UploadErrorJsonSettle"}
           \/ (event' = "UploadSettle" /\ lastUpload' = Rejected))
          => extractedData' = extractedData]_vars

\* C19 case: an upload was rejected while the dataset of an earlier
\* extraction was retained, and it still is.
C19_Witness ==
  /\ event = "UploadSettle"
  /\ lastUpload = Rejected
  /\ Len(pending) = 0
  /\ ~IsEmptyDataset(extractedData)

-----------------------------------------------------------------------------
(* Properties of the group headers *)

\* The file names on the group headers, in document order.
HeaderLabels(children) ==
  LET headers == SelectSeq(children, IsHeader)
  IN [k \in 1..Len(headers) |-> headers[k].text[2]]

\* The file names that differ from the one tracked when their item is
\* reached: the tracked name is "" at the first item and the name of the
\* item before at every other one, whatever the types of the items.
ExpectedHeaders(data) ==
  LET Tracked(k) == IF k = 1 THEN "" ELSE data[k - 1].source_filename
      Opens(k) == data[k].source_filename # Tracked(k)
      opening == SelectSeq([k \in 1..Len(data) |-> k], Opens)
  IN [j \in 1..Len(opening) |-> data[opening[j]].source_filename]

\* C20: in a render that runs to completion the group headers are decided
\* by the source_filename values alone: an item of unrecognized type opens
\* a group and becomes the tracked name like any other, although it has no
\* item block.
C20_HeadersIgnoreType ==
  (event = "displayContent")
    => /\ HeaderLabels(contentPreview) = ExpectedHeaders(lastRendered.items)
       /\ ItemBlockTypes(contentPreview) = RecognizedTypes(lastRendered.items)

\* C20 case: the dataset ends with a run of one unrecognized item, whose
\* header is the last element of the preview.
C20_Witness ==
  /\ event = "displayContent"
  /\ lastRendered.items = <<TextItem(""), AudioItem("a.pdf")>>
  /\ contentPreview = <<Placeholder(TRUE), Paragraph("Hello"), GroupHeader("a.pdf")>>


====
